---- MODULE Spec2Model ----
(***************************************************************************)
(* Model of main.py, the MNQ/NQ alert bot: the scan pipeline check_setup   *)
(* with its gates, the four strategy evaluators, the position sizing and   *)
(* the two notification sinks.                                             *)
(*                                                                         *)
(* Prices are integers counted in quarter points (the MNQ/NQ tick): 400 is *)
(* 100.00 points.  Quarter points are exact in binary floating point, so   *)
(* the differences, the clamp and round(x, 1) of the source are modelled   *)
(* exactly.  Every bar shape used has high + low + close divisible by 3,   *)
(* so the typical price (h + l + c) / 3 is an integer and the float VWAP   *)
(* comparison of the source agrees with the exact comparison below.        *)
(* The window lengths below 20 that are used are not divisible by 3, which *)
(* keeps "volume > 1.5 * mean" exact as well.  The open column of a bar is *)
(* read by no function and is left out.                                    *)
(***************************************************************************)
EXTENDS Integers, Sequences, FiniteSets, TLC

VARIABLES
    pc,                  \* position of the running scan or call
    trigger,             \* "timer" (scan_and_alert), "manual" (manual_trigger), "call", "none"
    fn,                  \* name of the evaluator called directly, or "none"
    now,                 \* the clock read by the scan: [wd, hour, minute] in US/Eastern
    events,              \* calendar feed being examined by has_high_impact_news
    news,                \* result of has_high_impact_news
    fg_raw,              \* response of the sentiment API
    fg_index,            \* local fg_index of check_setup
    df,                  \* local df of check_setup / argument of an evaluator
    signal,              \* local signal of check_setup / result of an evaluator
    trade,               \* value returned by check_setup
    trace,               \* steps the current scan went through, in order
    discord_out,         \* embeds posted to the chat webhook by the current scan
    sheets_out           \* rows posted to the sheet webhook by the current scan

vars == <<pc, trigger, fn, now, events,
          news, fg_raw, fg_index, df, signal, trade, trace, discord_out, sheets_out>>

(***************************************************************************)
(* Configuration (main.py, CONFIGURATION) and literals of the source.      *)
(***************************************************************************)
ACCOUNT_SIZE == 25000
\* RISK_PERCENT = 0.01, kept as a number of hundredths
RISK_PERCENT_HUNDREDTHS == 1
POINT_VALUE == 2
\* clamp bounds of stop_dist, in points
MIN_STOP_POINTS == 2
MAX_STOP_POINTS == 12
\* minutes=70 of the get_bars call
BARS_MINUTES == 70
\* len(df) < 20 of check_setup
MIN_BARS == 20
\* blackout horizon of has_high_impact_news, seconds
NEWS_HORIZON == 900
\* fear / greed thresholds of the sentiment filter
FEAR_BELOW == 20
GREED_ABOVE == 80
\* neutral default of get_fear_greed_index
FG_NEUTRAL == 50

(***************************************************************************)
(* Values.                                                                 *)
(***************************************************************************)
\* Python None as the df ("no data")
NoData == <<[timestamp |-> -1, high |-> -1, low |-> -1, close |-> -1, volume |-> -1]>>

\* Python None as a signal
NoSignal == [type |-> "none", price |-> 0, stop |-> 0, strategy |-> "none"]

\* an exception propagating out of an evaluator
Raised == [type |-> "raise", price |-> 0, stop |-> 0, strategy |-> "none"]

\* Python None as a trade
NoTrade == [direction |-> "none", price |-> 0, stop_dist |-> 0, sentiment |-> 0,
            strategy |-> "none"]

Sig(t, p, s, name) == [type |-> t, price |-> p, stop |-> s, strategy |-> name]

IsSignal(s) == s.type \in {"long", "short"}

(***************************************************************************)
(* pandas helpers.                                                         *)
(***************************************************************************)
Min2(a, b) == IF a < b THEN a ELSE b

Max2(a, b) == IF a > b THEN a ELSE b

Abs(x) == IF x < 0 THEN -x ELSE x

\* df.tail(k) and df[...][-k:]
tail(s, k) == SubSeq(s, Max2(1, Len(s) - k + 1), Len(s))

\* df.head(k)
head(s, k) == SubSeq(s, 1, Min2(k, Len(s)))

\* s.iloc[-k]
iloc_neg(s, k) == s[Len(s) - k + 1]

\* column.max() and column.min() of a non-empty frame
col_max(s, col) == CHOOSE x \in {s[i][col] : i \in 1..Len(s)} :
                      \A i \in 1..Len(s) : s[i][col] <= x

col_min(s, col) == CHOOSE x \in {s[i][col] : i \in 1..Len(s)} :
                      \A i \in 1..Len(s) : s[i][col] >= x

RECURSIVE col_sum(_, _)
col_sum(s, col) == IF Len(s) = 0 THEN 0
                   ELSE s[1][col] + col_sum(Tail(s), col)

\* sum of (high + low + close) * volume, three times the sum of tp * volume
RECURSIVE tpv3_sum(_)
tpv3_sum(s) == IF Len(s) = 0 THEN 0
               ELSE (s[1].high + s[1].low + s[1].close) * s[1].volume + tpv3_sum(Tail(s))

\* hour of a timestamp given in minutes of the US/Eastern day
HourOf(ts) == (ts % 1440) \div 60

\* current_vol > avg_vol * 1.5  with avg_vol the mean volume of frame s
VolAbove15(cur, s) == 2 * Len(s) * cur > 3 * col_sum(s, "volume")

\* current_vol > avg_vol  with avg_vol the mean volume of frame s
VolAbove(cur, s) == Len(s) * cur > col_sum(s, "volume")

(***************************************************************************)
(* calculate_vwap: the last value of cumsum(tp * volume) / cumsum(volume), *)
(* kept as the fraction num / den (both times 3).  den = 0 is NaN.         *)
(***************************************************************************)
calculate_vwap(s) == [num |-> tpv3_sum(s), den |-> 3 * col_sum(s, "volume")]

\* price > vwap, price < vwap, price <= vwap, price >= vwap; all False on NaN
GtVwap(p, v) == v.den > 0 /\ p * v.den > v.num

LtVwap(p, v) == v.den > 0 /\ p * v.den < v.num

LeVwap(p, v) == v.den > 0 /\ p * v.den <= v.num

GeVwap(p, v) == v.den > 0 /\ p * v.den >= v.num

(***************************************************************************)
(* Strategy evaluators.                                                    *)
(***************************************************************************)
\* the time gate of check_orb_setup
OrbActive(t) == (t.hour = 9 /\ t.minute >= 30) \/ (t.hour = 10 /\ t.minute = 0)

\* rth_bars of check_orb_setup: the bars whose US/Eastern hour is >= 9
rth_bars(s) == SelectSeq(s, LAMBDA b : HourOf(b.timestamp) >= 9)

check_orb_setup(s, t) ==
    IF ~OrbActive(t) THEN NoSignal
    ELSE IF s = NoData THEN Raised
    ELSE IF Len(rth_bars(s)) < 5 THEN NoSignal
    ELSE LET orb_bars      == head(rth_bars(s), 5)
             orb_high      == col_max(orb_bars, "high")
             orb_low       == col_min(orb_bars, "low")
             current_price == iloc_neg(s, 1).close
             current_vol   == iloc_neg(s, 1).volume
             last20        == tail(s, 20)
         IN  IF current_price > orb_high /\ VolAbove15(current_vol, last20)
                THEN Sig("long", current_price, orb_low, "ORB")
             ELSE IF current_price < orb_low /\ VolAbove15(current_vol, last20)
                THEN Sig("short", current_price, orb_high, "ORB")
             ELSE NoSignal

\* a stop taken from the last 15 bars instead of the last 10
vwap_stop_bars_15(s) == tail(s, 15)

\* the bars the stop of check_vwap_pullback is taken from: iloc[-10:]
vwap_stop_bars(s) == tail(s, 10)

check_vwap_pullback(s) ==
    IF s = NoData THEN Raised
    ELSE IF Len(s) < 30 THEN NoSignal
    ELSE LET vwap          == calculate_vwap(s)
             current_price == iloc_neg(s, 1).close
             prev_price    == iloc_neg(s, 2).close
             current_vol   == iloc_neg(s, 1).volume
             last20        == tail(s, 20)
             fifth         == iloc_neg(s, 5).close
         IN  IF /\ GtVwap(fifth, vwap)
                /\ LeVwap(current_price, vwap)
                /\ GtVwap(prev_price, vwap)
                /\ VolAbove(current_vol, last20)
                THEN Sig("long", current_price, col_min(vwap_stop_bars(s), "low"), "VWAP")
             ELSE IF /\ LtVwap(fifth, vwap)
                     /\ GeVwap(current_price, vwap)
                     /\ LtVwap(prev_price, vwap)
                     /\ VolAbove(current_vol, last20)
                THEN Sig("short", current_price, col_max(vwap_stop_bars(s), "high"), "VWAP")
             ELSE NoSignal

check_failed_auction(s) ==
    IF s = NoData THEN Raised
    ELSE IF Len(s) < 10 THEN NoSignal
    ELSE LET last3 == tail(s, 3)
         IN  IF /\ last3[1].close < last3[2].close
                /\ last3[2].high > last3[1].high
                /\ last3[3].close < last3[2].low
                THEN Sig("short", last3[3].close, col_max(last3, "high"), "FailedAuction")
             ELSE IF /\ last3[1].close > last3[2].close
                     /\ last3[2].low < last3[1].low
                     /\ last3[3].close > last3[2].high
                THEN Sig("long", last3[3].close, col_min(last3, "low"), "FailedAuction")
             ELSE NoSignal

\* a lookback one bar short
breakout_lookback_14(recent) == tail(recent, 14)

\* a lookback of the 15 bars before the latest one
breakout_lookback_prior(recent) ==
    SubSeq(recent, Max2(1, Len(recent) - 15), Len(recent) - 1)

\* lookback of check_breakout: recent.tail(15)
breakout_lookback(recent) == tail(recent, 15)

check_breakout(s) ==
    IF s = NoData \/ Len(s) = 0 THEN Raised
    ELSE LET recent        == tail(s, 50)
             current_price == iloc_neg(recent, 1).close
             current_vol   == iloc_neg(recent, 1).volume
             last20        == tail(recent, 20)
             lookback      == breakout_lookback(recent)
             recent_high   == col_max(lookback, "high")
             recent_low    == col_min(lookback, "low")
         IN  IF current_price > recent_high /\ VolAbove15(current_vol, last20)
                THEN Sig("long", current_price, recent_low, "Breakout")
             ELSE IF current_price < recent_low /\ VolAbove15(current_vol, last20)
                THEN Sig("short", current_price, recent_high, "Breakout")
             ELSE NoSignal

(***************************************************************************)
(* Gates.                                                                  *)
(***************************************************************************)
\* weekday(): Monday is 0, Friday 4, Saturday 5, Sunday 6
is_market_closed(t) ==
    \/ (t.wd = 4 /\ t.hour >= 17)
    \/ t.wd = 5
    \/ (t.wd = 6 /\ t.hour < 18)

(* An event of the feed: date is "missing" (no 'date' key), "bad" (not ISO),
   "naive" (ISO without offset) or "aware" (ISO with an offset or Z); delta
   is its scheduled time minus now, in seconds.  now is datetime.utcnow(),
   a naive datetime, so subtracting it from an aware event_time raises
   TypeError, which leaves the loop and reaches the outer except.
   The loop result is "true", "false" or "raise". *)
RECURSIVE news_loop(_)
news_loop(es) ==
    IF Len(es) = 0 THEN "false"
    ELSE LET e == es[1]
         IN  IF e.date \in {"missing", "bad"} THEN news_loop(Tail(es))
             ELSE IF e.date = "aware" THEN "raise"
             ELSE IF 0 <= e.delta /\ e.delta <= NEWS_HORIZON /\ e.impact = "High"
                THEN "true"
             ELSE news_loop(Tail(es))

\* feed.ok = FALSE: the request or the JSON decoding failed
has_high_impact_news(feed) ==
    IF ~feed.ok THEN FALSE ELSE news_loop(feed.events) = "true"

\* resp.ok = FALSE: the request or the parsing failed
get_fear_greed_index(resp) == IF resp.ok THEN resp.value ELSE FG_NEUTRAL

\* resp: the frame the provider returned, or NoData when the call failed
get_bars(resp) == IF resp = NoData \/ Len(resp) = 0 THEN NoData ELSE resp

(***************************************************************************)
(* Inputs.  A window is built from a few bar shapes: a base bar repeated,  *)
(* a few spike bars at chosen distances from the end, and the last three   *)
(* bars chosen freely.  Bars are one minute apart and the last bar is      *)
(* stamped with the minute the window was fetched at.  A scan only runs    *)
(* the evaluators on windows of 20 bars or more, where none of them        *)
(* raises; the direct calls also pass shorter windows and no data.         *)
(***************************************************************************)
Shape(h, l, c) == [high |-> h, low |-> l, close |-> c]

Flat == Shape(404, 396, 400)

Up == Shape(410, 401, 407)

Down == Shape(399, 390, 393)

\* a bar with a deep low, 12 points under the close of BreakUp
Deep == Shape(404, 361, 399)

\* well-formed, closes on its high
TopClose == Shape(410, 398, 410)

\* closes above its own high / below its own low
BreakUp == Shape(404, 396, 409)

BreakDown == Shape(404, 396, 391)

LastShapes == {Flat, Up, Down, TopClose, BreakUp, BreakDown}

MidShapes == {Flat, Up, Down}

\* most spike bars in a window
MaxSpikes == 2

\* offset: distance of the spike from the last bar: 4 is iloc[-5], 14 the oldest
\* bar of the 15-bar lookback, 15 the bar just before it
Spike(shape, offset) == [shape |-> shape, offset |-> offset]

Spikes == {Spike(Up, 4), Spike(Down, 4), Spike(Up, 14), Spike(Down, 14),
           Spike(Down, 15), Spike(Deep, 14)}

\* at most MaxSpikes spikes, no two on the same bar
SpikeSets == {S \in SUBSET Spikes :
                 /\ Cardinality(S) <= MaxSpikes
                 /\ \A a \in S, b \in S : a.offset = b.offset => a = b}

\* base volume and volume of the last bar
VolProfiles == {[base |-> 0, last |-> 0], [base |-> 9, last |-> 9],
                [base |-> 9, last |-> 19], [base |-> 9, last |-> 40]}

Minutes(t) == t.hour * 60 + t.minute

WithVT(shape, v, ts) == [timestamp |-> ts, high |-> shape.high, low |-> shape.low,
                         close |-> shape.close, volume |-> v]

MkWindow(n, t, vp, spikes, t3, t2, last) ==
    [i \in 1..n |->
        LET off == n - i
            ts  == (Minutes(t) - off) % 1440
        IN  IF off = 0 THEN WithVT(last, vp.last, ts)
            ELSE IF off = 1 THEN WithVT(t2, vp.base, ts)
            ELSE IF off = 2 THEN WithVT(t3, vp.base, ts)
            ELSE IF \E sp \in spikes : sp.offset = off
                THEN WithVT((CHOOSE sp \in spikes : sp.offset = off).shape, vp.base, ts)
            ELSE WithVT(Flat, vp.base, ts)]

Clock(wd, h, m) == [wd |-> wd, hour |-> h, minute |-> m]

\* Thursday 12:00, outside every time gate
Noon == Clock(3, 12, 0)

\* window lengths used by the direct calls
CallLens == {0, 5, 10, 20, 29, 30, BARS_MINUTES}

CallWindowsAt(t) ==
    {NoData} \cup
    {MkWindow(n, t, vp, sp, t3, t2, l) :
        n \in CallLens, vp \in VolProfiles, sp \in SpikeSets,
        t3 \in {Flat, Up}, t2 \in MidShapes, l \in LastShapes}

\* clocks of the direct calls of check_orb_setup: before, inside and after its gate
OrbClocks == {Clock(3, 9, 29), Clock(3, 9, 30), Clock(3, 9, 35), Clock(3, 10, 0),
              Clock(3, 10, 1)}

OrbLens == {0, 5, 20, BARS_MINUTES}

OrbWindowsAt(t) ==
    {NoData} \cup
    {MkWindow(n, t, vp, {}, t3, t2, l) :
        n \in OrbLens, vp \in VolProfiles,
        t3 \in MidShapes, t2 \in MidShapes, l \in LastShapes}

\* clocks of a scan: closed (Friday 17:00, Saturday, Sunday 17:59) and open
ScanClocks == {Clock(4, 17, 0), Clock(5, 12, 0), Clock(6, 17, 59),
               Clock(4, 16, 59), Clock(3, 9, 29), Clock(3, 9, 35)}

ScanLens == {19, 20, BARS_MINUTES}

\* what the bar provider may answer to a scan at time t
ScanResponsesAt(t) ==
    {NoData, <<>>} \cup
    {MkWindow(n, t, vp, sp, Flat, t2, l) :
        n \in ScanLens, vp \in {[base |-> 9, last |-> 9], [base |-> 9, last |-> 40]},
        sp \in {{}, {Spike(Up, 4)}, {Spike(Down, 4)}},
        t2 \in MidShapes, l \in LastShapes}

\* responses of the sentiment API
FgResponses == {[ok |-> FALSE, value |-> 0]} \cup
               [ok : {TRUE}, value : {19, 20, 80, 81}]

\* longest calendar feed
MaxEvents == 2

Event(d, delta, impact) == [date |-> d, delta |-> delta, impact |-> impact]

FeedEvents == {Event("missing", 0, "High"), Event("bad", 0, "High"),
               Event("naive", 0 - 1, "High"), Event("naive", 0, "High"),
               Event("naive", NEWS_HORIZON, "High"),
               Event("naive", NEWS_HORIZON + 1, "High"),
               Event("naive", 0, "Low"),
               Event("aware", NEWS_HORIZON, "High"),
               Event("aware", NEWS_HORIZON + 1, "Low")}

RECURSIVE SeqsUpTo(_, _)
SeqsUpTo(S, k) == IF k = 0 THEN {<<>>}
                  ELSE LET shorter == SeqsUpTo(S, k - 1)
                       IN  shorter \cup {Append(q, e) : q \in shorter, e \in S}

NoFeed == [ok |-> FALSE, events |-> <<>>]

Feeds == {NoFeed} \cup [ok : {TRUE}, events : SeqsUpTo(FeedEvents, MaxEvents)]

(***************************************************************************)
(* check_setup, from the sentiment filter to the returned trade.           *)
(* trade.price and trade.stop_dist are kept in tenths of a point, the      *)
(* precision round(x, 1) leaves them with.                                 *)
(***************************************************************************)
\* round(num / den) to the nearest integer, ties to the even one
RoundHalfEven(num, den) ==
    LET q == num \div den
        r == num % den
    IN  IF 2 * r < den THEN q
        ELSE IF 2 * r > den THEN q + 1
        ELSE IF q % 2 = 0 THEN q ELSE q + 1

\* round(x, 1) of a value given in quarter points, as a number of tenths
round1(quarters) == RoundHalfEven(quarters * 10, 4)

\* max(2, min(12, stop_dist)), in quarter points
clamp(quarters) == Max2(MIN_STOP_POINTS * 4, Min2(MAX_STOP_POINTS * 4, quarters))

\* a filter that also suppresses at the thresholds themselves
vetoed_inclusive(direction, fg) ==
    \/ (direction = "long" /\ fg <= FEAR_BELOW)
    \/ (direction = "short" /\ fg >= GREED_ABOVE)

\* the sentiment filter
vetoed(direction, fg) ==
    \/ (direction = "long" /\ fg < FEAR_BELOW)
    \/ (direction = "short" /\ fg > GREED_ABOVE)

\* the dictionary check_setup returns
make_trade(sig, fg) ==
    [direction |-> sig.type,
     price     |-> round1(sig.price),
     stop_dist |-> round1(clamp(Abs(sig.price - sig.stop))),
     sentiment |-> fg,
     strategy  |-> sig.strategy]

\* a data check that lets a 19-bar window through
insufficient_off_by_one(s) == s = NoData \/ Len(s) < MIN_BARS - 1

\* df is None or len(df) < 20
insufficient(s) == s = NoData \/ Len(s) < MIN_BARS

\* the guards of the four strategy calls
runs_orb(t) == 9 <= t.hour /\ t.hour <= 10

\* the VWAP call without its "if signal is None"
runs_vwap_always(sig) == TRUE

runs_vwap(sig) == sig = NoSignal

runs_failed_auction(sig) == sig = NoSignal

runs_breakout(sig) == sig = NoSignal

\* a dispatch that does not look at the trade
has_trade_always(tr) == TRUE

\* "if trade:" of scan_and_alert and manual_trigger
has_trade(tr) == tr # NoTrade

(***************************************************************************)
(* Sinks.                                                                  *)
(***************************************************************************)
\* contracts of log_to_sheets; stop_dist in tenths of a point
contracts_of(stop_tenths) ==
    Max2(1, (ACCOUNT_SIZE * RISK_PERCENT_HUNDREDTHS * 10)
                \div (100 * stop_tenths * POINT_VALUE))

sheet_payload(tr) ==
    [direction   |-> tr.direction,
     entry_price |-> tr.price,
     stop_dist   |-> tr.stop_dist,
     contracts   |-> contracts_of(tr.stop_dist),
     risk        |-> (ACCOUNT_SIZE * RISK_PERCENT_HUNDREDTHS) \div 100,
     notes       |-> <<tr.strategy, tr.sentiment>>]

discord_embed(tr) ==
    [title     |-> tr.direction,
     entry     |-> tr.price,
     stop      |-> IF tr.direction = "long" THEN tr.price - tr.stop_dist
                   ELSE tr.price + tr.stop_dist,
     stop_dist |-> tr.stop_dist,
     footer    |-> <<tr.strategy, tr.sentiment>>]

(***************************************************************************)
(* State machine.                                                          *)
(***************************************************************************)
Init ==
    /\ pc = "idle"
    /\ trigger = "none"
    /\ fn = "none"
    /\ now = Noon
    /\ events = NoFeed
    /\ news = FALSE
    /\ fg_raw = [ok |-> FALSE, value |-> 0]
    /\ fg_index = FG_NEUTRAL
    /\ df = NoData
    /\ signal = NoSignal
    /\ trade = NoTrade
    /\ trace = <<>>
    /\ discord_out = <<>>
    /\ sheets_out = <<>>

\* the locals of a scan as they are before it starts
Fresh ==
    /\ fn' = "none"
    /\ events' = NoFeed
    /\ news' = FALSE
    /\ fg_raw' = [ok |-> FALSE, value |-> 0]
    /\ fg_index' = FG_NEUTRAL
    /\ df' = NoData
    /\ signal' = NoSignal
    /\ trade' = NoTrade
    /\ discord_out' = <<>>
    /\ sheets_out' = <<>>

\* the scheduler job fires
scan_and_alert ==
    /\ pc = "idle"
    /\ \E t \in ScanClocks : now' = t
    /\ trigger' = "timer"
    /\ pc' = "closed_gate"
    /\ trace' = <<"start">>
    /\ Fresh

\* POST /trigger
manual_trigger ==
    /\ pc = "idle"
    /\ \E t \in ScanClocks : now' = t
    /\ trigger' = "manual"
    /\ pc' = "closed_gate"
    /\ trace' = <<"start">>
    /\ Fresh

\* check_setup returns None
ReturnNone(step) ==
    /\ pc' = "returned"
    /\ trade' = NoTrade
    /\ trace' = Append(trace, step)

\* if is_market_closed(): return None
ClosedGate ==
    /\ pc = "closed_gate"
    /\ IF is_market_closed(now)
          THEN ReturnNone("closed")
          ELSE pc' = "news_fetch" /\ trace' = Append(trace, "open") /\ UNCHANGED trade
    /\ UNCHANGED <<trigger, fn, now, events, news, fg_raw, fg_index, df,
                   signal, discord_out, sheets_out>>

\* has_high_impact_news() reads the feed and answers
NewsFetch ==
    /\ pc = "news_fetch"
    /\ \E feed \in Feeds :
          /\ events' = feed
          /\ news' = has_high_impact_news(feed)
    /\ pc' = "news_gate"
    /\ UNCHANGED <<trigger, fn, now, fg_raw, fg_index, df, signal, trade,
                   trace, discord_out, sheets_out>>

\* if has_high_impact_news(): return None
NewsGate ==
    /\ pc = "news_gate"
    /\ IF news
          THEN ReturnNone("blackout")
          ELSE pc' = "sentiment" /\ trace' = Append(trace, "no_blackout")
               /\ UNCHANGED trade
    /\ events' = NoFeed
    /\ UNCHANGED <<trigger, fn, now, news, fg_raw, fg_index, df, signal,
                   discord_out, sheets_out>>

\* fg_index = get_fear_greed_index()
Sentiment ==
    /\ pc = "sentiment"
    /\ \E resp \in FgResponses :
          /\ fg_raw' = resp
          /\ fg_index' = get_fear_greed_index(resp)
    /\ pc' = "get_bars"
    /\ trace' = Append(trace, "sentiment")
    /\ UNCHANGED <<trigger, fn, now, events, news, df, signal, trade,
                   discord_out, sheets_out>>

\* df = get_bars(SYMBOL, minutes=70)
GetBars ==
    /\ pc = "get_bars"
    /\ \E resp \in ScanResponsesAt(now) : df' = get_bars(resp)
    /\ pc' = "data_check"
    /\ trace' = Append(trace, "bars")
    /\ UNCHANGED <<trigger, fn, now, events, news, fg_raw, fg_index, signal,
                   trade, discord_out, sheets_out>>

\* if df is None or len(df) < 20: return None
DataCheck ==
    /\ pc = "data_check"
    /\ IF insufficient(df)
          THEN ReturnNone("no_data")
          ELSE pc' = "orb" /\ trace' = Append(trace, "enough") /\ UNCHANGED trade
    /\ UNCHANGED <<trigger, fn, now, events, news, fg_raw, fg_index, df,
                   signal, discord_out, sheets_out>>

\* 1. ORB
StepOrb ==
    /\ pc = "orb"
    /\ IF runs_orb(now)
          THEN signal' = check_orb_setup(df, now) /\ trace' = Append(trace, "orb")
          ELSE UNCHANGED <<signal, trace>>
    /\ pc' = "vwap"
    /\ UNCHANGED <<trigger, fn, now, events, news, fg_raw, fg_index, df,
                   trade, discord_out, sheets_out>>

\* 2. VWAP pullback
StepVwap ==
    /\ pc = "vwap"
    /\ IF runs_vwap(signal)
          THEN signal' = check_vwap_pullback(df) /\ trace' = Append(trace, "vwap")
          ELSE UNCHANGED <<signal, trace>>
    /\ pc' = "failed_auction"
    /\ UNCHANGED <<trigger, fn, now, events, news, fg_raw, fg_index, df,
                   trade, discord_out, sheets_out>>

\* 3. failed auction
StepFailedAuction ==
    /\ pc = "failed_auction"
    /\ IF runs_failed_auction(signal)
          THEN signal' = check_failed_auction(df)
               /\ trace' = Append(trace, "failed_auction")
          ELSE UNCHANGED <<signal, trace>>
    /\ pc' = "breakout"
    /\ UNCHANGED <<trigger, fn, now, events, news, fg_raw, fg_index, df,
                   trade, discord_out, sheets_out>>

\* 4. general breakout
StepBreakout ==
    /\ pc = "breakout"
    /\ IF runs_breakout(signal)
          THEN signal' = check_breakout(df) /\ trace' = Append(trace, "breakout")
          ELSE UNCHANGED <<signal, trace>>
    /\ pc' = "signal_check"
    /\ UNCHANGED <<trigger, fn, now, events, news, fg_raw, fg_index, df,
                   trade, discord_out, sheets_out>>

\* if signal is None: return None
SignalCheck ==
    /\ pc = "signal_check"
    /\ IF signal = NoSignal
          THEN ReturnNone("no_signal")
          ELSE pc' = "veto" /\ trace' = Append(trace, "fired") /\ UNCHANGED trade
    /\ UNCHANGED <<trigger, fn, now, events, news, fg_raw, fg_index, df,
                   signal, discord_out, sheets_out>>

\* the sentiment filter
Veto ==
    /\ pc = "veto"
    /\ IF vetoed(signal.type, fg_index)
          THEN ReturnNone("vetoed")
          ELSE pc' = "size" /\ trace' = Append(trace, "kept") /\ UNCHANGED trade
    /\ UNCHANGED <<trigger, fn, now, events, news, fg_raw, fg_index, df,
                   signal, discord_out, sheets_out>>

\* stop_dist, clamp and the returned dictionary
Size ==
    /\ pc = "size"
    /\ trade' = make_trade(signal, fg_index)
    /\ pc' = "returned"
    /\ trace' = Append(trace, "sized")
    /\ UNCHANGED <<trigger, fn, now, events, news, fg_raw, fg_index, df,
                   signal, discord_out, sheets_out>>

\* back in scan_and_alert / manual_trigger: if trade: ...
Dispatch ==
    /\ pc = "returned"
    /\ pc' = IF has_trade(trade) THEN "discord" ELSE "done"
    /\ UNCHANGED <<trigger, fn, now, events, news, fg_raw, fg_index, df,
                   signal, trade, trace, discord_out, sheets_out>>

(* send_discord_alert(trade).  The function reads DISCORD_WEBHOOK_URL, which
   the environment sets or leaves empty, and returns at once when it is
   empty; a failed post is swallowed and changes nothing the program keeps. *)
send_discord_alert ==
    /\ pc = "discord"
    /\ \E DISCORD_WEBHOOK_URL \in BOOLEAN :
          discord_out' = IF DISCORD_WEBHOOK_URL
                            THEN Append(discord_out, discord_embed(trade))
                            ELSE discord_out
    /\ trace' = Append(trace, "discord")
    /\ pc' = "sheets"
    /\ UNCHANGED <<trigger, fn, now, events, news, fg_raw, fg_index, df,
                   signal, trade, sheets_out>>

\* log_to_sheets(trade), with GOOGLE_SCRIPT_URL read the same way
log_to_sheets ==
    /\ pc = "sheets"
    /\ \E GOOGLE_SCRIPT_URL \in BOOLEAN :
          sheets_out' = IF GOOGLE_SCRIPT_URL
                           THEN Append(sheets_out, sheet_payload(trade))
                           ELSE sheets_out
    /\ trace' = Append(trace, "sheets")
    /\ pc' = "done"
    /\ UNCHANGED <<trigger, fn, now, events, news, fg_raw, fg_index, df,
                   signal, trade, discord_out>>

\* the scan or the call is over; its locals are gone
Finish ==
    /\ pc \in {"done", "called"}
    /\ pc' = "idle"
    /\ trigger' = "none"
    /\ now' = Noon
    /\ trace' = <<>>
    /\ Fresh

(***************************************************************************)
(* Direct calls of the evaluators, as a test of one function makes them.   *)
(***************************************************************************)
Called(name, t, s, result) ==
    /\ pc = "idle"
    /\ pc' = "called"
    /\ trigger' = "call"
    /\ fn' = name
    /\ now' = t
    /\ df' = s
    /\ signal' = result
    /\ UNCHANGED <<events, news, fg_raw, fg_index, trade, trace,
                   discord_out, sheets_out>>

\* .dt on the timestamp column of an empty frame raises unless the column is
\* datetime-typed; both outcomes are possible on an empty frame
call_check_orb_setup ==
    /\ pc = "idle"
    /\ \E t \in OrbClocks : \E s \in OrbWindowsAt(t) :
        \E r \in {check_orb_setup(s, t)} \cup
                 (IF s = <<>> /\ OrbActive(t) THEN {Raised} ELSE {}) :
            Called("check_orb_setup", t, s, r)

call_check_vwap_pullback ==
    /\ pc = "idle"
    /\ \E s \in CallWindowsAt(Noon) :
        Called("check_vwap_pullback", Noon, s, check_vwap_pullback(s))

call_check_failed_auction ==
    /\ pc = "idle"
    /\ \E s \in CallWindowsAt(Noon) :
        Called("check_failed_auction", Noon, s, check_failed_auction(s))

call_check_breakout ==
    /\ pc = "idle"
    /\ \E s \in CallWindowsAt(Noon) :
        Called("check_breakout", Noon, s, check_breakout(s))

Next ==
    \/ call_check_breakout
    \/ call_check_failed_auction
    \/ call_check_vwap_pullback
    \/ call_check_orb_setup
    \/ scan_and_alert
    \/ manual_trigger
    \/ ClosedGate
    \/ NewsFetch
    \/ NewsGate
    \/ Sentiment
    \/ GetBars
    \/ DataCheck
    \/ StepOrb
    \/ StepVwap
    \/ StepFailedAuction
    \/ StepBreakout
    \/ SignalCheck
    \/ Veto
    \/ Size
    \/ Dispatch
    \/ send_discord_alert
    \/ log_to_sheets
    \/ Finish

Spec == Init /\ [][Next]_vars

(***************************************************************************)
(* Properties.                                                             *)
(***************************************************************************)
InScan == trigger \in {"timer", "manual"}

Has(step) == \E i \in 1..Len(trace) : trace[i] = step

\* every occurrence of step b in the trace has a step a before it
Before(a, b) == \A j \in 1..Len(trace) :
                    trace[j] = b => \E i \in 1..(j - 1) : trace[i] = a

EvalNames == <<"orb", "vwap", "failed_auction", "breakout">>

Rank(name) == CHOOSE k \in 1..4 : EvalNames[k] = name

\* what each evaluator returns on the window and clock of the scan
EvalResult(k) ==
    CASE k = 1 -> check_orb_setup(df, now)
      [] k = 2 -> check_vwap_pullback(df)
      [] k = 3 -> check_failed_auction(df)
      [] k = 4 -> check_breakout(df)

FirstNonNull ==
    IF \E k \in 1..4 : EvalResult(k) # NoSignal
       THEN EvalResult(CHOOSE k \in 1..4 :
                /\ EvalResult(k) # NoSignal
                /\ \A m \in 1..(k - 1) : EvalResult(m) = NoSignal)
       ELSE NoSignal

EvalsRun == SelectSeq(trace, LAMBDA x : \E k \in 1..4 : EvalNames[k] = x)

(* C1: in check_setup the evaluators run in the order ORB, VWAP pullback,
   failed auction, breakout; an evaluator runs only if every evaluator before
   it in that order returns null on the window, and once the evaluators are
   done the signal of the scan is the result of the first one that returns
   non-null. *)
C1_PriorityOrder ==
    (InScan /\ Has("enough")) =>
        /\ \A i \in 1..Len(EvalsRun) : \A j \in 1..Len(EvalsRun) :
              i < j => Rank(EvalsRun[i]) < Rank(EvalsRun[j])
        /\ \A j \in 1..Len(EvalsRun) : \A k \in 1..4 :
              k < Rank(EvalsRun[j]) => EvalResult(k) = NoSignal
        /\ pc \notin {"orb", "vwap", "failed_auction", "breakout"}
              => signal = FirstNonNull

\* ORB fired, VWAP pullback would have fired too, and was not run
C1_Witness ==
    /\ InScan
    /\ pc = "signal_check"
    /\ signal.strategy = "ORB"
    /\ IsSignal(check_vwap_pullback(df))
    /\ check_vwap_pullback(df).type # signal.type
    /\ ~Has("vwap")

ShortOrNoData(s) == s = NoData \/ Len(s) < 20

ScanEndedOnShortWindow ==
    /\ pc \in {"returned", "done"}
    /\ trace[Len(trace)] = "no_data"
    /\ Len(EvalsRun) = 0
    /\ signal = NoSignal
    /\ trade = NoTrade
    /\ discord_out = <<>>
    /\ sheets_out = <<>>

(* C2 as stated: on every window of fewer than 20 bars, an empty window and
   no data included, each evaluator called on it returns null (no signal, no
   exception), and so does the pipeline. *)
C2_Original ==
    /\ (pc = "called" /\ ShortOrNoData(df)) => signal = NoSignal
    /\ (InScan /\ Has("bars") /\ pc # "data_check" /\ ShortOrNoData(df))
          => ScanEndedOnShortWindow

(* C2 amended: on every window of fewer than 20 bars, no data included, the
   pipeline check_setup returns no signal without running an evaluator and
   without an exception; called on a window (not on no data) of fewer than 20
   bars check_vwap_pullback returns null, and check_failed_auction returns
   null when the window has fewer than 10 bars. *)
C2_ShortWindows ==
    /\ (InScan /\ Has("bars") /\ pc # "data_check" /\ ShortOrNoData(df))
          => ScanEndedOnShortWindow
    /\ (pc = "called" /\ fn = "check_vwap_pullback" /\ df # NoData /\ Len(df) < 20)
          => signal = NoSignal
    /\ (pc = "called" /\ fn = "check_failed_auction" /\ df # NoData /\ Len(df) < 10)
          => signal = NoSignal

\* a scan that fetched a 19-bar window and returned
C2_Witness ==
    /\ InScan
    /\ pc = "returned"
    /\ df # NoData
    /\ Len(df) = 19

\* clamp(|entry - stop|, 2, 12) in quarter points, from the evaluator's signal
ClampedStopQuarters ==
    LET d == IF signal.price >= signal.stop THEN signal.price - signal.stop
             ELSE signal.stop - signal.price
    IN  IF d < 8 THEN 8 ELSE IF d > 48 THEN 48 ELSE d

(* C3: the contract count posted to the sheet equals
   max(1, floor(risk_amount / (clamp(|entry - stop|, 2, 12) * POINT_VALUE)))
   with risk_amount = ACCOUNT_SIZE * RISK_PERCENT; nothing but the final
   floor rounds. *)
C3_ExactSizing ==
    (InScan /\ Len(sheets_out) > 0) =>
        sheets_out[1].contracts =
            LET exact == (ACCOUNT_SIZE * RISK_PERCENT_HUNDREDTHS * 4)
                            \div (100 * ClampedStopQuarters * POINT_VALUE)
            IN  IF exact < 1 THEN 1 ELSE exact

(* C4: has_high_impact_news returns true iff the feed was read and holds an
   event tagged High whose scheduled time t has now <= t <= now + 900 s; it
   returns false when the fetch failed. *)
C4_BlackoutIff ==
    (InScan /\ pc = "news_gate") =>
        (news <=> /\ events.ok
                  /\ \E i \in 1..Len(events.events) :
                        LET e == events.events[i]
                        IN  /\ e.date \in {"naive", "aware"}
                            /\ e.impact = "High"
                            /\ 0 <= e.delta
                            /\ e.delta <= 900)

(* C5: once the filter has been applied, the signal was suppressed exactly
   when it is long with index < 20 or short with index > 80; a returned trade
   has the direction of the evaluator's signal; a failed sentiment fetch
   gives index 50 and suppresses nothing. *)
C5_SentimentVeto ==
    (InScan /\ Has("fired") /\ pc # "veto") =>
        /\ Has("vetoed") <=> \/ (signal.type = "long" /\ fg_index < 20)
                             \/ (signal.type = "short" /\ fg_index > 80)
        /\ Has("vetoed") => trade = NoTrade
        /\ trade # NoTrade => trade.direction = signal.type
        /\ ~fg_raw.ok => (fg_index = 50 /\ ~Has("vetoed"))
        /\ fg_raw.ok => fg_index = fg_raw.value

\* a long signal at index 20 came through as a long trade
C5_Witness ==
    /\ InScan
    /\ pc = "returned"
    /\ fg_index = 20
    /\ signal.type = "long"
    /\ trade.direction = "long"

\* check_breakout was called on a 20-bar window whose last close is above
\* the highs of bars 6-20 and whose last volume is twice the mean volume
C6_Case ==
    /\ pc = "called"
    /\ fn = "check_breakout"
    /\ df # NoData
    /\ Len(df) = 20
    /\ \A i \in 6..20 : df[20].close > df[i].high
    /\ 20 * df[20].volume = 2 * col_sum(df, "volume")

C6_Result ==
    /\ signal.type = "long"
    /\ signal.price = df[20].close
    /\ \A i \in 6..20 : signal.stop <= df[i].low
    /\ \E i \in 6..20 : signal.stop = df[i].low

(* C6 as stated: on any 20-bar window where bar 20's close exceeds the max
   high of bars 6-20 and bar 20's volume is twice the mean volume of bars
   1-20, check_breakout returns a long signal with entry bar 20's close and
   stop the min low of bars 6-20. *)
C6_Original == C6_Case => C6_Result

(* C6 amended: the same, for windows where bar 20's volume is positive. *)
C6_BreakoutLong == (C6_Case /\ df[20].volume > 0) => C6_Result

\* the case of C6 with a positive volume and a low in bar 6 that sets the stop
C6_Witness ==
    /\ C6_Case
    /\ df[20].volume > 0
    /\ df[6].low < df[7].low
    /\ signal.stop = df[6].low

(* C7: every scan, timer or manual, goes gate check, fetch bars, data check,
   evaluators, sentiment filter, sizing, sinks: each step is taken only after
   the one before it passed, a scan stopped early calls neither sink and a
   scan that produced a trade calls both. *)
C7_PipelineOrder ==
    InScan =>
        /\ Before("open", "bars") /\ Before("no_blackout", "bars")
        /\ \A k \in 1..4 : Before("enough", EvalNames[k])
        /\ Before("bars", "enough")
        /\ Before("fired", "kept") /\ Before("fired", "vetoed")
        /\ Has("fired") => (IsSignal(signal) /\ Len(EvalsRun) > 0)
        /\ Before("kept", "sized")
        /\ Before("sized", "discord") /\ Before("sized", "sheets")
        /\ (Len(discord_out) > 0 \/ Len(sheets_out) > 0) => Has("sized")
        /\ pc = "done" =>
              IF Has("sized")
                 THEN trade # NoTrade /\ Has("discord") /\ Has("sheets")
                 ELSE /\ trade = NoTrade
                      /\ ~Has("discord") /\ ~Has("sheets")
                      /\ discord_out = <<>> /\ sheets_out = <<>>

\* a manual scan that produced a trade and called both sinks
C7_Witness ==
    /\ trigger = "manual"
    /\ pc = "done"
    /\ trade # NoTrade
    /\ Has("discord")
    /\ Has("sheets")

\* bars stamped at or after 09:30 US/Eastern
BarsAfterOpen == SelectSeq(df, LAMBDA b : b.timestamp >= 9 * 60 + 30)

(* C8: inside its time window check_orb_setup takes the opening range from
   the first 5 bars stamped at or after 09:30; it signals long iff the latest
   close is above that range's high with the latest volume > 1.5 x the mean
   of the last 20 volumes, and short iff the latest close is below that
   range's low with the same volume condition. *)
C8_OpeningRange ==
    (pc = "called" /\ fn = "check_orb_setup" /\ OrbActive(now)
        /\ df # NoData /\ Len(df) > 0) =>
        LET n     == Len(df)
            first == SubSeq(BarsAfterOpen, 1, 5)
            loud  == 2 * Len(tail(df, 20)) * df[n].volume
                        > 3 * col_sum(tail(df, 20), "volume")
        IN  /\ signal.type = "long" <=>
                  /\ Len(BarsAfterOpen) >= 5
                  /\ \A i \in 1..5 : df[n].close > first[i].high
                  /\ loud
            /\ signal.type = "short" <=>
                  /\ Len(BarsAfterOpen) >= 5
                  /\ \A i \in 1..5 : df[n].close < first[i].low
                  /\ loud

C9_Called ==
    /\ pc = "called"
    /\ fn = "check_vwap_pullback"
    /\ df # NoData
    /\ Len(df) >= 30

\* close of bar i compared with the VWAP of the whole window; never true
\* when the window has no volume
C9_Above(i) == /\ col_sum(df, "volume") > 0
               /\ 3 * df[i].close * col_sum(df, "volume") > tpv3_sum(df)

C9_Below(i) == /\ col_sum(df, "volume") > 0
               /\ 3 * df[i].close * col_sum(df, "volume") < tpv3_sum(df)

C9_Loud == 20 * df[Len(df)].volume > col_sum(SubSeq(df, Len(df) - 19, Len(df)), "volume")

C9_LongResult ==
    LET n == Len(df)
    IN  /\ signal.type = "long"
        /\ \A i \in (n - 9)..n : signal.stop <= df[i].low
        /\ \E i \in (n - 9)..n : signal.stop = df[i].low

C9_ShortResult ==
    LET n == Len(df)
    IN  /\ signal.type = "short"
        /\ \A i \in (n - 9)..n : signal.stop >= df[i].high
        /\ \E i \in (n - 9)..n : signal.stop = df[i].high

(* C9 as stated: on a window of at least 30 bars check_vwap_pullback signals
   long when the close 5 bars back was above VWAP, the prior bar's close was
   at or below VWAP and the current volume is above the 20-bar mean (mirror
   for short); the stop is the min low (long) or max high (short) of the
   last 10 bars. *)
C9_Original ==
    C9_Called =>
        LET n == Len(df)
        IN  /\ (C9_Above(n - 4) /\ ~C9_Above(n - 1) /\ col_sum(df, "volume") > 0
                    /\ C9_Loud) => C9_LongResult
            /\ (C9_Below(n - 4) /\ ~C9_Below(n - 1) /\ col_sum(df, "volume") > 0
                    /\ C9_Loud) => C9_ShortResult

(* C9 amended: on a window of at least 30 bars check_vwap_pullback signals
   long when the close of the fifth bar from the end was above VWAP, the
   prior bar's close was still above VWAP, the latest close is at or below
   VWAP and the latest volume is above the 20-bar mean (mirror for short);
   the stop is the min low (long) or max high (short) of the last 10 bars. *)
C9_VwapPullback ==
    C9_Called =>
        LET n == Len(df)
        IN  /\ (C9_Above(n - 4) /\ C9_Above(n - 1) /\ ~C9_Above(n)
                    /\ col_sum(df, "volume") > 0 /\ C9_Loud) => C9_LongResult
            /\ (C9_Below(n - 4) /\ C9_Below(n - 1) /\ ~C9_Below(n)
                    /\ col_sum(df, "volume") > 0 /\ C9_Loud) => C9_ShortResult

\* a long pullback whose stop comes from the last 10 bars while a lower low
\* lies just outside them
C9_Witness ==
    /\ C9_Called
    /\ signal.type = "long"
    /\ C9_Above(Len(df) - 1)
    /\ ~C9_Above(Len(df))
    /\ df[Len(df) - 14].low < signal.stop

C10_WellFormedWindow ==
    /\ df # NoData
    /\ Len(df) > 0
    /\ \A i \in 1..Len(df) : df[i].low <= df[i].close /\ df[i].close <= df[i].high

(* C10: on every non-empty window whose bars all have low <= close <= high,
   check_breakout returns None, called directly or from a scan. *)
C10_NeverFiresWellFormed ==
    /\ (pc = "called" /\ fn = "check_breakout" /\ C10_WellFormedWindow)
          => signal = NoSignal
    /\ (InScan /\ pc = "signal_check" /\ Has("breakout") /\ C10_WellFormedWindow)
          => signal = NoSignal

\* a well-formed window whose last bar closes on its high, above every
\* earlier high, on a volume above 1.5 x the mean
C10_Witness ==
    /\ pc = "called"
    /\ fn = "check_breakout"
    /\ C10_WellFormedWindow
    /\ Len(df) >= 20
    /\ \A i \in 1..(Len(df) - 1) : df[Len(df)].close > df[i].high
    /\ VolAbove15(df[Len(df)].volume, tail(df, 20))

====
